---------------------------- MODULE Spec2Model ----------------------------
(***************************************************************************)
(* A model of src/script.js: the on-page content analyzer (one click       *)
(* handler running eight checks that append recommendations to a results   *)
(* list) and the PageSpeed URL pipeline (a click handler, a fetch promise  *)
(* chain and the projection of the payload into the URL results list).     *)
(*                                                                         *)
(* Strings are sequences of one-character strings, so that length, trim,   *)
(* lower-casing, substring search and regular-expression matching are      *)
(* computed, not assumed.  A recommendation is a record                    *)
(*   [msg |-> the template of its text, val |-> the value interpolated in  *)
(*    it, type |-> its severity].                                          *)
(***************************************************************************)
EXTENDS Integers, Sequences, FiniteSets, TLC

VARIABLES
    titleInput,      \* titleInput.value
    keywordInput,    \* keywordInput.value
    metaInput,       \* metaInput.value
    contentInput,    \* contentInput.value, as the document DOMParser makes of it
    resultsList,     \* the children of #results-list, in order
    clicked,         \* history: the field values read by the last analyze click,
                     \* and whether a click came before it
    uncaught,        \* history: the last analyze click ended in an uncaught exception
    call,            \* unit harness: the arguments of the function applied
    ret,             \* unit harness: what the function appended
    urlInput,        \* urlInput.value
    urlResultsList,  \* the children of #url-results-list, in order
    spinnerHidden,   \* loadingSpinner.classList holds 'hidden'
    buttonDisabled,  \* analyzeUrlButton.disabled
    inFlight,        \* the promise chains not yet settled, by the stage each is in
    alerts,          \* alert() calls so far
    urlClicks,       \* clicks that got past the empty-URL return
    fetchCalls,      \* fetch() calls so far
    outcome,         \* history: how the last chain to settle ended
    payload          \* history: the payload the last chain to settle delivered

contentVars == <<titleInput, keywordInput, metaInput, contentInput, resultsList,
                 clicked, uncaught>>
harnessVars == <<call, ret>>
urlVars == <<urlInput, urlResultsList, spinnerHidden, buttonDisabled, inFlight,
             alerts, urlClicks, fetchCalls, outcome, payload>>
vars == <<contentVars, harnessVars, urlVars>>

-----------------------------------------------------------------------------
(* Strings *)

\* The characters toLowerCase changes, among those the model's strings use.
toLowerCaseChar(c) ==
    CASE c = "S" -> "s"
      [] c = "E" -> "e"
      [] c = "O" -> "o"
      [] c = "G" -> "g"
      [] OTHER -> c

toLowerCase(s) == [i \in 1..Len(s) |-> toLowerCaseChar(s[i])]

IsSpace(c) == c = " "

\* String.prototype.trim: white space removed at both ends.
trim(s) ==
    LET solid == {i \in 1..Len(s) : ~IsSpace(s[i])}
    IN IF solid = {} THEN <<>>
       ELSE LET first == CHOOSE i \in solid : \A j \in solid : i <= j
                last == CHOOSE i \in solid : \A j \in solid : j <= i
            IN SubSeq(s, first, last)

\* String.prototype.includes
includes(s, sub) ==
    \E i \in 1..(Len(s) - Len(sub) + 1) : SubSeq(s, i, i + Len(sub) - 1) = sub

\* String.prototype.startsWith
startsWith(s, prefix) ==
    Len(prefix) <= Len(s) /\ SubSeq(s, 1, Len(prefix)) = prefix

\* trimmed.split(/\s+/).length for a trimmed, non-empty string: one piece per
\* maximal run of characters that are not white space.
splitLength(s) ==
    Cardinality({i \in 1..Len(s) :
                    ~IsSpace(s[i]) /\ (i = 1 \/ IsSpace(s[i - 1]))})

\* text.trim() === '' ? 0 : text.trim().split(/\s+/).length
countWords(text) ==
    IF trim(text) = <<>> THEN 0 ELSE splitLength(trim(text))

\* c repeated n times
Repeat(c, n) == [i \in 1..n |-> c]

\* The string s repeated n times
RepeatString(s, n) == [i \in 1..(n * Len(s)) |-> s[((i - 1) % Len(s)) + 1]]

\* s, padded with the character c to the length n (s itself when n is smaller)
PadTo(s, c, n) == IF n <= Len(s) THEN SubSeq(s, 1, n) ELSE s \o Repeat(c, n - Len(s))

-----------------------------------------------------------------------------
(* new RegExp(keyword, 'g') and String.prototype.match, for patterns over   *)
(* the model's characters: a letter or a space matches itself, "." matches  *)
(* any character, and "(" opens a group that nothing closes (the model's    *)
(* characters hold no ")"), for which the constructor throws a SyntaxError. *)

RegExpThrows(pattern) == \E i \in 1..Len(pattern) : pattern[i] = "("

MatchAt(text, pattern, i) ==
    /\ i + Len(pattern) - 1 <= Len(text)
    /\ \A j \in 1..Len(pattern) :
          pattern[j] = "." \/ pattern[j] = text[i + j - 1]

\* The number of matches of a global pattern from position i on: the leftmost
\* match first, the search resuming after each match.
RECURSIVE MatchCountFrom(_, _, _)
MatchCountFrom(text, pattern, i) ==
    LET starts == {j \in i..(Len(text) - Len(pattern) + 1) : MatchAt(text, pattern, j)}
    IN IF starts = {} THEN 0
       ELSE LET leftmost == CHOOSE j \in starts : \A k \in starts : j <= k
            IN 1 + MatchCountFrom(text, pattern, leftmost + Len(pattern))

\* (text.match(new RegExp(pattern, 'g')) || []).length
matchCount(text, pattern) == MatchCountFrom(text, pattern, 1)

-----------------------------------------------------------------------------
(* Recommendations *)

NoValue == [kind |-> "none", n |-> 0]
IntValue(n) == [kind |-> "int", n |-> n]

\* A recommendation's text: a template and the value interpolated into it.
Text(msg, val) == [msg |-> msg, val |-> val]

\* addRecommendation: resultsList.appendChild(listItem)
addRecommendation(list, text, type) ==
    Append(list, [msg |-> text.msg, val |-> text.val, type |-> type])

-----------------------------------------------------------------------------
(* The document DOMParser returns, as far as the checks query it: its       *)
(* elements in document order, each with a tag, its text and attributes.    *)

Element(tag, text, attrs) == [tag |-> tag, text |-> text, attrs |-> attrs]
NoAttrs == <<>>

\* doc.querySelectorAll(selector), the selector being a list of tag names
querySelectorAll(doc, tags) == SelectSeq(doc, LAMBDA e : e.tag \in tags)

\* element.getAttribute(name) is null (falsy), or '' (falsy), or a string
hasAttribute(e, name) == name \in DOMAIN e.attrs
attributeTruthy(e, name) == hasAttribute(e, name) /\ e.attrs[name] # <<>>

\* doc.body.textContent: the text of every element, in document order
RECURSIVE bodyTextContent(_)
bodyTextContent(doc) ==
    IF doc = <<>> THEN <<>> ELSE Head(doc).text \o bodyTextContent(Tail(doc))

-----------------------------------------------------------------------------
(* The checks.  Each takes the results list as it stands and returns it     *)
(* with its recommendations appended.                                       *)

\* A faulty variant of TitleLengthOutOfRange: the bounds themselves are refused.
TitleLengthOutOfRangeStrict(n) == n <= 30 \/ n >= 60

\* title.length < 30 || title.length > 60
TitleLengthOutOfRange(n) == n < 30 \/ n > 60

\* CHECK 1: Page Title
checkTitle(list, title, keyword) ==
    IF title = <<>>
    THEN addRecommendation(list, Text("title-missing", NoValue), "bad")
    ELSE LET l1 == IF TitleLengthOutOfRange(Len(title))
                   THEN addRecommendation(list, Text("title-length", IntValue(Len(title))), "bad")
                   ELSE addRecommendation(list, Text("title-length-good", NoValue), "good")
         IN IF keyword # <<>> /\ includes(toLowerCase(title), keyword)
            THEN addRecommendation(l1, Text("title-keyword", NoValue), "good")
            ELSE IF keyword # <<>>
                 THEN addRecommendation(l1, Text("title-keyword-missing", NoValue), "bad")
                 ELSE l1

\* CHECK 2: Meta Description
checkMetaDescription(list, meta, keyword) ==
    IF meta = <<>>
    THEN addRecommendation(list, Text("meta-missing", NoValue), "bad")
    ELSE LET l1 == IF Len(meta) > 160 \/ Len(meta) < 50
                   THEN addRecommendation(list, Text("meta-length", IntValue(Len(meta))), "bad")
                   ELSE addRecommendation(list, Text("meta-length-good", NoValue), "good")
         IN IF keyword # <<>> /\ includes(toLowerCase(meta), keyword)
            THEN addRecommendation(l1, Text("meta-keyword", NoValue), "good")
            ELSE IF keyword # <<>>
                 THEN addRecommendation(l1, Text("meta-keyword-missing", NoValue), "bad")
                 ELSE l1

\* CHECK 3: Word Count
checkWordCount(list, wordCount) ==
    IF wordCount < 300
    THEN addRecommendation(list, Text("word-count-short", IntValue(wordCount)), "bad")
    ELSE addRecommendation(list, Text("word-count-good", IntValue(wordCount)), "good")

\* (keywordCount / wordCount * 100).toFixed(2): 0/0 is NaN and n/0 Infinity,
\* which toFixed prints as "NaN" and "Infinity"; any other quotient is printed
\* rounded to hundredths, kept here as the number of hundredths (for the word
\* counts of the model the double nearest the quotient rounds as the quotient).
densityToFixed2(keywordCount, wordCount) ==
    IF wordCount = 0
    THEN IF keywordCount = 0 THEN [kind |-> "NaN", n |-> 0]
                              ELSE [kind |-> "Infinity", n |-> 0]
    ELSE [kind |-> "fixed2",
          n |-> (2 * 10000 * keywordCount + wordCount) \div (2 * wordCount)]

\* density > 2.5 and density < 0.5, the string converted back to a number:
\* every comparison with NaN is false.
densityAbove(density, hundredths) ==
    \/ density.kind = "Infinity"
    \/ density.kind = "fixed2" /\ density.n > hundredths
densityBelow(density, hundredths) ==
    density.kind = "fixed2" /\ density.n < hundredths

\* CHECK 4: Keyword Density.  threw: new RegExp(keyword, 'g') threw, and
\* nothing of the function after it ran.
checkKeywordDensity(list, textContent, keyword, wordCount) ==
    IF keyword = <<>>
    THEN [list |-> addRecommendation(list, Text("keyword-unset", NoValue), "info"),
          threw |-> FALSE]
    ELSE IF RegExpThrows(keyword)
    THEN [list |-> list, threw |-> TRUE]
    ELSE LET keywordCount == matchCount(toLowerCase(textContent), keyword)
             density == densityToFixed2(keywordCount, wordCount)
         IN [list |->
                IF densityAbove(density, 250)
                THEN addRecommendation(list, Text("density-high", density), "bad")
                ELSE IF densityBelow(density, 50)
                     THEN addRecommendation(list, Text("density-low", density), "info")
                     ELSE addRecommendation(list, Text("density-good", density), "good"),
             threw |-> FALSE]

\* CHECK 5: Keyword in First Paragraph
checkKeywordInFirstParagraph(list, doc, keyword) ==
    IF keyword = <<>> THEN list
    ELSE LET ps == querySelectorAll(doc, {"p"})
         IN IF ps # <<>> /\ includes(toLowerCase(ps[1].text), keyword)
            THEN addRecommendation(list, Text("first-paragraph-keyword", NoValue), "good")
            ELSE addRecommendation(list, Text("first-paragraph-keyword-missing", NoValue), "bad")

\* CHECK 6: Subheadings
checkHeadings(list, doc, keyword) ==
    LET headings == querySelectorAll(doc, {"h2", "h3", "h4"})
    IN IF Len(headings) = 0
       THEN addRecommendation(list, Text("headings-none", NoValue), "bad")
       ELSE LET keywordInHeading ==
                    \E i \in 1..Len(headings) :
                        keyword # <<>> /\ includes(toLowerCase(headings[i].text), keyword)
                l1 == addRecommendation(list, Text("headings-count", IntValue(Len(headings))), "good")
            IN IF keyword # <<>> /\ keywordInHeading
               THEN addRecommendation(l1, Text("headings-keyword", NoValue), "good")
               ELSE IF keyword # <<>>
                    THEN addRecommendation(l1, Text("headings-keyword-missing", NoValue), "info")
                    ELSE l1

HttpPrefix == <<"h", "t", "t", "p", ":", "/", "/">>
HttpsPrefix == <<"h", "t", "t", "p", "s", ":", "/", "/">>

\* CHECK 7: Links
checkLinks(list, doc) ==
    LET links == querySelectorAll(doc, {"a"})
        isExternal(e) ==
            /\ attributeTruthy(e, "href")
            /\ (startsWith(e.attrs.href, HttpPrefix) \/ startsWith(e.attrs.href, HttpsPrefix))
        isInternal(e) ==
            /\ attributeTruthy(e, "href")
            /\ ~isExternal(e)
            /\ (startsWith(e.attrs.href, <<"/">>) \/ startsWith(e.attrs.href, <<"#">>))
        externalLinks == Cardinality({i \in 1..Len(links) : isExternal(links[i])})
        internalLinks == Cardinality({i \in 1..Len(links) : isInternal(links[i])})
        l1 == IF externalLinks = 0
              THEN addRecommendation(list, Text("links-no-outbound", NoValue), "info")
              ELSE addRecommendation(list, Text("links-outbound", IntValue(externalLinks)), "good")
    IN IF internalLinks = 0
       THEN addRecommendation(l1, Text("links-no-internal", NoValue), "bad")
       ELSE addRecommendation(l1, Text("links-internal", IntValue(internalLinks)), "good")

\* CHECK 8: Image Alt Tags
checkImages(list, doc) ==
    LET images == querySelectorAll(doc, {"img"})
    IN IF Len(images) = 0
       THEN addRecommendation(list, Text("images-none", NoValue), "info")
       ELSE LET missingAltTags ==
                    Cardinality({i \in 1..Len(images) :
                        \/ ~attributeTruthy(images[i], "alt")
                        \/ trim(images[i].attrs.alt) = <<>>})
            IN IF missingAltTags > 0
               THEN addRecommendation(list, Text("images-missing-alt", IntValue(missingAltTags)), "bad")
               ELSE addRecommendation(list, Text("images-alt-good", IntValue(Len(images))), "good")

-----------------------------------------------------------------------------
(* The analyze button's click handler *)

\* A faulty variant of normalizeKeyword: the value is lower-cased and not trimmed.
normalizeKeywordUntrimmed(value) == toLowerCase(value)

\* keywordInput.value.toLowerCase().trim()
normalizeKeyword(value) == trim(toLowerCase(value))

\* A faulty variant of clearResults: the old results stay.
keepResults(list) == list

\* resultsList.innerHTML = ''
clearResults(list) == <<>>

\* The handler's body, from the list it finds: the list it leaves, and whether
\* it ended in an uncaught exception (the checks after the throw never ran).
analyze(list, title, keywordValue, metaDescription, doc) ==
    LET keyword == normalizeKeyword(keywordValue)
        textContent == bodyTextContent(doc)
        wordCount == countWords(textContent)
        l0 == clearResults(list)
        l1 == checkTitle(l0, title, keyword)
        l2 == checkMetaDescription(l1, metaDescription, keyword)
        l3 == checkWordCount(l2, wordCount)
        r4 == checkKeywordDensity(l3, textContent, keyword, wordCount)
    IN IF r4.threw
       THEN [list |-> r4.list, threw |-> TRUE]
       ELSE LET l5 == checkKeywordInFirstParagraph(r4.list, doc, keyword)
                l6 == checkHeadings(l5, doc, keyword)
                l7 == checkLinks(l6, doc)
            IN [list |-> checkImages(l7, doc), threw |-> FALSE]

-----------------------------------------------------------------------------
(* JSON objects are functions from the keys they hold; a key that is absent *)
(* reads as undefined.                                                      *)

EmptyObject == <<>>
Has(o, k) == k \in DOMAIN o
With(o, k, v) == [x \in (DOMAIN o) \cup {k} |-> IF x = k THEN v ELSE o[x]]
Merge(o1, o2) ==
    [x \in (DOMAIN o1) \cup (DOMAIN o2) |-> IF x \in DOMAIN o1 THEN o1[x] ELSE o2[x]]

MessageValue(m) == [kind |-> m, n |-> 0]
NaNValue == [kind |-> "NaN", n |-> 0]
\* A number as a template formats it: the format, and the number formatted.
Formatted(kind, n) == [kind |-> kind, n |-> n]

\* addUrlRecommendation: urlResultsList.appendChild(listItem)
addUrlRecommendation(list, text, type) ==
    Append(list, [msg |-> text.msg, val |-> text.val, type |-> type])

\* addScoreCard.  score: a number (in hundredths of the category's score), or
\* NaN, for which both comparisons are false.
addScoreCard(list, title, score) ==
    LET scoreColor == IF score.kind = "NaN" THEN "red"
                      ELSE IF score.n >= 90 THEN "green"
                      ELSE IF score.n >= 50 THEN "orange"
                      ELSE "red"
    IN Append(list, [msg |-> "score-card", val |-> score, type |-> "card",
                     title |-> title, color |-> scoreColor])

\* category.score * 100: undefined * 100 is NaN
scoreTimes100(category) ==
    IF Has(category, "score") THEN Formatted("fixed0", category.score) ELSE NaNValue

TypeErrorMessage == "Cannot read properties of undefined"

\* The three metric recommendations, from the first detail item.  A metric the
\* item lacks is undefined: every comparison with it is false, undefined / 1000
\* is NaN, which toFixed prints, and undefined.toFixed throws a TypeError.
\* Layout shifts are in thousandths.
metricRecommendations(list, metrics) ==
    LET hasLcp == Has(metrics, "largestContentfulPaint")
        lcp == metrics.largestContentfulPaint
        lcpType == IF hasLcp /\ lcp <= 2500 THEN "good"
                   ELSE IF hasLcp /\ lcp <= 4000 THEN "info" ELSE "bad"
        l1 == addUrlRecommendation(list,
                  Text("lcp", IF hasLcp THEN Formatted("seconds-fixed2", lcp) ELSE NaNValue),
                  lcpType)
    IN IF ~Has(metrics, "cumulativeLayoutShift")
       THEN [list |-> l1, threw |-> TRUE]
       ELSE LET cls == metrics.cumulativeLayoutShift
                clsType == IF cls <= 100 THEN "good"
                           ELSE IF cls <= 250 THEN "info" ELSE "bad"
                l2 == addUrlRecommendation(l1, Text("cls", Formatted("fixed3", cls)), clsType)
            IN IF ~Has(metrics, "totalBlockingTime")
               THEN [list |-> l2, threw |-> TRUE]
               ELSE LET tbt == metrics.totalBlockingTime
                        tbtType == IF tbt <= 200 THEN "good" ELSE "bad"
                    IN [list |-> addUrlRecommendation(l2,
                                    Text("tbt", Formatted("fixed0", tbt)), tbtType),
                        threw |-> FALSE]

\* audits['metrics'] && audits['metrics'].details && audits['metrics'].details.items
\*   && audits['metrics'].details.items[0]
hasMetrics(audits) ==
    /\ Has(audits, "metrics")
    /\ Has(audits.metrics, "details")
    /\ Has(audits.metrics.details, "items")
    /\ Len(audits.metrics.details.items) > 0

\* 1. CORE WEB VITALS & PERFORMANCE
performanceSection(list, lighthouseResult) ==
    IF ~Has(lighthouseResult, "categories")
    THEN [list |-> list, threw |-> TRUE]
    ELSE IF Has(lighthouseResult.categories, "performance")
    THEN LET l1 == addScoreCard(list, "Performance Score",
                       scoreTimes100(lighthouseResult.categories.performance))
             l2 == addUrlRecommendation(l1, Text("core-web-vitals", NoValue), "good")
         IN IF ~Has(lighthouseResult, "audits")
            THEN [list |-> l2, threw |-> TRUE]
            ELSE IF hasMetrics(lighthouseResult.audits)
                 THEN metricRecommendations(l2, lighthouseResult.audits.metrics.details.items[1])
                 ELSE [list |-> l2, threw |-> FALSE]
    ELSE [list |-> addUrlRecommendation(list, Text("performance-missing", NoValue), "bad"),
          threw |-> FALSE]

\* 2. ACCESSIBILITY SCORE
accessibilitySection(list, lighthouseResult) ==
    IF Has(lighthouseResult.categories, "accessibility")
    THEN LET accessibilityScore == scoreTimes100(lighthouseResult.categories.accessibility)
             l1 == addScoreCard(list, "Accessibility Score", accessibilityScore)
         IN IF accessibilityScore.kind # "NaN" /\ accessibilityScore.n < 90
            THEN addUrlRecommendation(l1, Text("accessibility-low", NoValue), "bad")
            ELSE addUrlRecommendation(l1, Text("accessibility-good", NoValue), "good")
    ELSE list

\* One audit of the SEO section: nothing when the audit is absent; "bad" when
\* its score is at most failsAt (false for a score that is undefined), else
\* "good".
auditRecommendation(list, audits, id, failsAt) ==
    IF ~Has(audits, id) THEN list
    ELSE IF Has(audits[id], "score") /\ audits[id].score <= failsAt
         THEN addUrlRecommendation(list, Text(id, MessageValue("failed")), "bad")
         ELSE addUrlRecommendation(list, Text(id, MessageValue("passed")), "good")

\* 3. SEO SCORE & Detailed Technical Checks.  Scores are in hundredths: a score
\* === 0 is one <= 0, a score < 1 is one <= 99.
seoSection(list, lighthouseResult) ==
    IF Has(lighthouseResult.categories, "seo")
    THEN LET l1 == addScoreCard(list, "Google SEO Score",
                       scoreTimes100(lighthouseResult.categories.seo))
         IN IF ~Has(lighthouseResult, "audits")
            THEN [list |-> l1, threw |-> TRUE]
            ELSE LET audits == lighthouseResult.audits
                     l2 == auditRecommendation(l1, audits, "meta-description", 0)
                     l3 == auditRecommendation(l2, audits, "image-alt", 99)
                     l4 == auditRecommendation(l3, audits, "is-crawlable", 99)
                 IN [list |-> auditRecommendation(l4, audits, "viewport", 0),
                     threw |-> FALSE]
    ELSE [list |-> addUrlRecommendation(list, Text("seo-missing", NoValue), "bad"),
          threw |-> FALSE]

\* processApiData: the list it leaves, and whether it threw (a TypeError, on
\* reading a property of undefined) with the list as it stood at the throw.
processApiData(list, data) ==
    LET l0 == <<>>
    IN IF ~Has(data, "lighthouseResult")
       THEN [list |-> l0, threw |-> TRUE]
       ELSE LET r1 == performanceSection(l0, data.lighthouseResult)
            IN IF r1.threw THEN r1
               ELSE seoSection(accessibilitySection(r1.list, data.lighthouseResult),
                               data.lighthouseResult)

-----------------------------------------------------------------------------
(* The payloads response.json() may deliver *)

\* A detail item of the metrics audit; a negative argument leaves the metric out.
MetricsItem(lcp, cls, tbt) ==
    Merge(IF lcp >= 0 THEN [largestContentfulPaint |-> lcp] ELSE EmptyObject,
          Merge(IF cls >= 0 THEN [cumulativeLayoutShift |-> cls] ELSE EmptyObject,
                IF tbt >= 0 THEN [totalBlockingTime |-> tbt] ELSE EmptyObject))

\* Every metric at and just past each of its thresholds, and left out.
MetricsItems ==
    {MetricsItem(lcp, 100, 200) : lcp \in {-1, 2500, 2501, 4000, 4001}}
    \cup {MetricsItem(2500, cls, 200) : cls \in {-1, 101, 250, 251}}
    \cup {MetricsItem(2500, 100, tbt) : tbt \in {-1, 201}}
    \cup {MetricsItem(-1, -1, -1)}

MetricsAudits ==
    {EmptyObject, [details |-> EmptyObject], [details |-> [items |-> <<>>]]}
    \cup {[details |-> [items |-> <<item>>]] : item \in MetricsItems}

SeoAuditIds == {"meta-description", "image-alt", "is-crawlable", "viewport"}

SeoAudits ==
    {EmptyObject}
    \cup {[id \in SeoAuditIds |-> audit] :
            audit \in {EmptyObject, [score |-> 0], [score |-> 50], [score |-> 100]}}
    \cup {With(EmptyObject, id, [score |-> 0]) : id \in SeoAuditIds}

AuditsObjects ==
    {Merge(metrics, seo) :
        metrics \in {EmptyObject} \cup {[metrics |-> audit] : audit \in MetricsAudits},
        seo \in SeoAudits}

CategoriesObjects ==
    {Merge(performance, Merge(accessibility, seo)) :
        performance \in {EmptyObject} \cup
            {[performance |-> [score |-> s]] : s \in {49, 90}},
        accessibility \in {EmptyObject, [accessibility |-> EmptyObject]} \cup
            {[accessibility |-> [score |-> s]] : s \in {89, 90}},
        seo \in {EmptyObject, [seo |-> [score |-> 50]]}}

LighthouseResults ==
    {Merge(categories, audits) :
        categories \in {EmptyObject} \cup {[categories |-> c] : c \in CategoriesObjects},
        audits \in {EmptyObject} \cup {[audits |-> a] : a \in AuditsObjects}}

ErrorObjects == {[message |-> "Quota exceeded"], EmptyObject}

Payloads ==
    {EmptyObject}
    \cup {[lighthouseResult |-> lr] : lr \in LighthouseResults}
    \cup {[error |-> e] : e \in ErrorObjects}
    \cup {[error |-> [message |-> "Quota exceeded"],
           lighthouseResult |-> [categories |-> [seo |-> [score |-> 50]],
                                 audits |-> EmptyObject]]}

UrlInputs == {"", "https://example.com"}

-----------------------------------------------------------------------------
(* The values the fields take *)

SeoGuide == <<"S", "E", "O", " ", "G", "u", "i", "d", "e">>
Guide == <<"g", "u", "i", "d", "e">>

\* Empty; 9 characters with "seo" in it; 30 characters without it.
TitleInputs == {<<>>, SeoGuide, PadTo(Guide, "e", 30)}

\* Unset; white space only; "SEO " (to be lower-cased and trimmed); a pattern
\* with a metacharacter; a pattern the RegExp constructor refuses.
KeywordInputs == {<<>>, <<" ", " ">>, <<"S", "E", "O", " ">>, <<".">>, <<"(">>}

\* Empty; 161 characters with "seo" in it.
MetaInputs == {<<>>, PadTo(SeoGuide, "e", 161)}

EmptyDoc == <<>>
BlankDoc == <<Element("div", <<" ", " ">>, NoAttrs)>>
GoodDoc ==
    <<Element("h2", SeoGuide, NoAttrs),
      Element("p", <<" ", "s", "e", "o", " ", "g", "u", "i", "d", "e", " ">>, NoAttrs),
      Element("a", Guide, [href |-> HttpsPrefix \o <<"e">>]),
      Element("a", Guide, [href |-> <<"/", "e">>]),
      Element("img", <<>>, [alt |-> Guide])>>
PoorDoc ==
    <<Element("p", Guide, NoAttrs),
      Element("h3", <<" ">> \o Guide, NoAttrs),
      Element("p", <<" ", "s", "e", "o">>, NoAttrs),
      Element("a", Guide, NoAttrs),
      Element("a", Guide, [href |-> <<"e">>]),
      Element("img", <<>>, NoAttrs),
      Element("img", <<>>, [alt |-> <<" ">>])>>

ContentInputs == {EmptyDoc, BlankDoc, GoodDoc, PoorDoc}

NotClicked ==
    [any |-> FALSE, again |-> FALSE,
     title |-> <<>>, keyword |-> <<>>, meta |-> <<>>, content |-> <<>>]

NoCall == [title |-> <<>>, keyword |-> <<>>]
NoRet == [done |-> FALSE, list |-> <<>>]

-----------------------------------------------------------------------------
(* The URL pipeline: the click handler and the promise chain it starts      *)

MaxAlerts == 1
MaxUrlClicks == 2

\* The page's markup, which the script does not set: at load the spinner
\* carries the class 'hidden' that the click handler removes, and the button
\* has no disabled attribute.
SpinnerHiddenAtLoad == TRUE
ButtonDisabledAtLoad == FALSE

InitUrl ==
    /\ urlInput = ""
    /\ urlResultsList = <<>>
    /\ spinnerHidden = SpinnerHiddenAtLoad
    /\ buttonDisabled = ButtonDisabledAtLoad
    /\ inFlight = [fetching |-> 0, parsing |-> 0]
    /\ alerts = 0
    /\ urlClicks = 0
    /\ fetchCalls = 0
    /\ outcome = "none"
    /\ payload = EmptyObject

EditUrl ==
    /\ \E v \in UrlInputs : urlInput' = v
    /\ UNCHANGED <<urlResultsList, spinnerHidden, buttonDisabled, inFlight, alerts,
                   urlClicks, fetchCalls, outcome, payload>>
    /\ UNCHANGED <<contentVars, harnessVars>>

\* A faulty variant of clearUrlResults: the old URL results stay.
keepUrlResults(list) == list

\* urlResultsList.innerHTML = '' (the click handler's)
clearUrlResults(list) == <<>>

\* A faulty variant of disableDuringLoad: the button stays enabled.
leaveEnabled == FALSE

\* analyzeUrlButton.disabled = true
disableDuringLoad == TRUE

\* analyzeUrlButton's click listener.  A disabled button dispatches no click.
AnalyzeUrlClick ==
    /\ ~buttonDisabled
    /\ \/ /\ urlInput = ""
          /\ alerts < MaxAlerts
          /\ alerts' = alerts + 1
          /\ UNCHANGED <<urlResultsList, spinnerHidden, buttonDisabled, inFlight,
                         urlClicks, fetchCalls, outcome, payload>>
       \/ /\ urlInput # ""
          /\ urlClicks < MaxUrlClicks
          /\ urlResultsList' = clearUrlResults(urlResultsList)
          /\ spinnerHidden' = FALSE
          /\ buttonDisabled' = disableDuringLoad
          /\ urlClicks' = urlClicks + 1
          /\ fetchCalls' = fetchCalls + 1
          /\ inFlight' = [inFlight EXCEPT !.fetching = @ + 1]
          /\ outcome' = "pending"
          /\ payload' = EmptyObject
          /\ UNCHANGED alerts
    /\ UNCHANGED urlInput
    /\ UNCHANGED <<contentVars, harnessVars>>

\* fetch(apiUrl) resolves: response => response.json()
FetchResolves ==
    /\ inFlight.fetching > 0
    /\ inFlight' = [fetching |-> inFlight.fetching - 1, parsing |-> inFlight.parsing + 1]
    /\ UNCHANGED <<urlInput, urlResultsList, spinnerHidden, buttonDisabled, alerts,
                   urlClicks, fetchCalls, outcome, payload>>
    /\ UNCHANGED <<contentVars, harnessVars>>

\* The .catch handler, for the error with this message
catchHandler(list, message) ==
    addUrlRecommendation(list, Text("network-error", MessageValue(message)), "bad")

\* fetch(apiUrl) rejects: the chain falls through to .catch
FetchRejects ==
    /\ inFlight.fetching > 0
    /\ inFlight' = [inFlight EXCEPT !.fetching = @ - 1]
    /\ spinnerHidden' = TRUE
    /\ buttonDisabled' = FALSE
    /\ urlResultsList' = catchHandler(urlResultsList, "Failed to fetch")
    /\ outcome' = "network-failure"
    /\ UNCHANGED <<urlInput, alerts, urlClicks, fetchCalls, payload>>
    /\ UNCHANGED <<contentVars, harnessVars>>

\* response.json() rejects (the body is no JSON): the chain falls through to .catch
JsonRejects ==
    /\ inFlight.parsing > 0
    /\ inFlight' = [inFlight EXCEPT !.parsing = @ - 1]
    /\ spinnerHidden' = TRUE
    /\ buttonDisabled' = FALSE
    /\ urlResultsList' = catchHandler(urlResultsList, "Unexpected token")
    /\ outcome' = "json-failure"
    /\ UNCHANGED <<urlInput, alerts, urlClicks, fetchCalls, payload>>
    /\ UNCHANGED <<contentVars, harnessVars>>

\* The data handler's effect on the list, and how it ended; an exception
\* processApiData throws rejects the handler's promise, and .catch runs.
dataHandler(list, data) ==
    IF Has(data, "error")
    THEN [list |-> addUrlRecommendation(list,
                      Text("error", MessageValue(IF Has(data.error, "message")
                                                 THEN data.error.message
                                                 ELSE "undefined")),
                      "bad"),
          outcome |-> "payload-error"]
    ELSE LET r == processApiData(list, data)
         IN IF r.threw
            THEN [list |-> catchHandler(r.list, TypeErrorMessage),
                  outcome |-> "projection-threw"]
            ELSE [list |-> r.list, outcome |-> "projected"]

\* response.json() resolves: data => { ... }
JsonResolves ==
    /\ inFlight.parsing > 0
    /\ \E data \in Payloads :
          LET r == dataHandler(urlResultsList, data)
          IN /\ urlResultsList' = r.list
             /\ outcome' = r.outcome
             /\ payload' = data
    /\ inFlight' = [inFlight EXCEPT !.parsing = @ - 1]
    /\ spinnerHidden' = TRUE
    /\ buttonDisabled' = FALSE
    /\ UNCHANGED <<urlInput, alerts, urlClicks, fetchCalls>>
    /\ UNCHANGED <<contentVars, harnessVars>>

NextUrl ==
    EditUrl \/ AnalyzeUrlClick \/ FetchResolves \/ FetchRejects \/ JsonRejects
        \/ JsonResolves

-----------------------------------------------------------------------------
(* The content analyzer: the user edits the fields and clicks analyze.      *)

InitContent ==
    /\ titleInput = <<>>
    /\ keywordInput = <<>>
    /\ metaInput = <<>>
    /\ contentInput = EmptyDoc
    /\ resultsList = <<>>
    /\ clicked = NotClicked
    /\ uncaught = FALSE

Init ==
    /\ InitContent
    /\ InitUrl
    /\ call = NoCall
    /\ ret = NoRet

EditTitle ==
    /\ \E v \in TitleInputs : titleInput' = v
    /\ UNCHANGED <<keywordInput, metaInput, contentInput, resultsList, clicked, uncaught>>
    /\ UNCHANGED <<harnessVars, urlVars>>

EditKeyword ==
    /\ \E v \in KeywordInputs : keywordInput' = v
    /\ UNCHANGED <<titleInput, metaInput, contentInput, resultsList, clicked, uncaught>>
    /\ UNCHANGED <<harnessVars, urlVars>>

EditMeta ==
    /\ \E v \in MetaInputs : metaInput' = v
    /\ UNCHANGED <<titleInput, keywordInput, contentInput, resultsList, clicked, uncaught>>
    /\ UNCHANGED <<harnessVars, urlVars>>

EditContent ==
    /\ \E v \in ContentInputs : contentInput' = v
    /\ UNCHANGED <<titleInput, keywordInput, metaInput, resultsList, clicked, uncaught>>
    /\ UNCHANGED <<harnessVars, urlVars>>

\* analyzeButton's click listener
AnalyzeClick ==
    LET r == analyze(resultsList, titleInput, keywordInput, metaInput, contentInput)
    IN /\ resultsList' = r.list
       /\ uncaught' = r.threw
       /\ clicked' = [any |-> TRUE, again |-> clicked.any,
                      title |-> titleInput, keyword |-> keywordInput,
                      meta |-> metaInput, content |-> contentInput]
       /\ UNCHANGED <<titleInput, keywordInput, metaInput, contentInput>>
       /\ UNCHANGED <<harnessVars, urlVars>>

Next == EditTitle \/ EditKeyword \/ EditMeta \/ EditContent \/ AnalyzeClick

Spec == Init /\ [][Next]_vars

-----------------------------------------------------------------------------
(* checkTitle applied to every title up to MaxTitleLen characters and every *)
(* normalized keyword.                                                      *)

MaxTitleLen == 61

TitleArgs ==
    {PadTo(core, "x", n) : core \in {SeoGuide, Guide}, n \in 0..MaxTitleLen}

KeywordArgs == {normalizeKeyword(v) : v \in KeywordInputs} \cup {Guide}

InitTitle ==
    /\ InitContent
    /\ InitUrl
    /\ call \in [title : TitleArgs, keyword : KeywordArgs]
    /\ ret = NoRet

CallCheckTitle ==
    /\ ~ret.done
    /\ ret' = [done |-> TRUE, list |-> checkTitle(<<>>, call.title, call.keyword)]
    /\ UNCHANGED <<call, contentVars, urlVars>>

NextTitle == CallCheckTitle

SpecTitle == InitTitle /\ [][NextTitle]_vars

-----------------------------------------------------------------------------
(* checkKeywordDensity applied, as the click handler applies it, to texts   *)
(* of up to MaxKeywordWords words "seo" followed by up to MaxOtherWords     *)
(* other words, with their word count, and to a keyword that is a plain     *)
(* word, one with a metacharacter, and one the RegExp constructor refuses.  *)

MaxKeywordWords == 2
MaxOtherWords == 203

DensityTexts ==
    {RepeatString(<<"s", "e", "o", " ">>, k) \o RepeatString(<<"x", " ">>, n) :
        k \in 0..MaxKeywordWords, n \in 0..MaxOtherWords}

DensityKeywords == {<<"s", "e", "o">>, <<"s", ".", "o">>, <<"(">>}

InitDensity ==
    /\ InitContent
    /\ InitUrl
    /\ \E text \in DensityTexts, keyword \in DensityKeywords :
          call = [textContent |-> text, keyword |-> keyword,
                  wordCount |-> countWords(text)]
    /\ ret = NoRet

CallCheckKeywordDensity ==
    /\ ~ret.done
    /\ LET r == checkKeywordDensity(<<>>, call.textContent, call.keyword, call.wordCount)
       IN ret' = [done |-> TRUE, list |-> r.list, threw |-> r.threw]
    /\ UNCHANGED <<call, contentVars, urlVars>>

NextDensity == CallCheckKeywordDensity

SpecDensity == InitDensity /\ [][NextDensity]_vars

-----------------------------------------------------------------------------
(* The URL pipeline alone *)

InitUrlSpec ==
    /\ InitContent
    /\ InitUrl
    /\ call = NoCall
    /\ ret = NoRet

SpecUrl == InitUrlSpec /\ [][NextUrl]_vars

-----------------------------------------------------------------------------
(* What is claimed of the content analyzer *)

RecsOf(list, msgs) == SelectSeq(list, LAMBDA r : r.msg \in msgs)
Rec(msg, val, type) == [msg |-> msg, val |-> val, type |-> type]

TitleMsgs ==
    {"title-missing", "title-length", "title-length-good", "title-keyword",
     "title-keyword-missing"}
MetaMsgs ==
    {"meta-missing", "meta-length", "meta-length-good", "meta-keyword",
     "meta-keyword-missing"}
WordCountMsgs == {"word-count-short", "word-count-good"}
DensityMsgs == {"keyword-unset", "density-high", "density-low", "density-good"}
FirstParagraphMsgs == {"first-paragraph-keyword", "first-paragraph-keyword-missing"}
HeadingsMsgs ==
    {"headings-none", "headings-count", "headings-keyword", "headings-keyword-missing"}
LinksMsgs == {"links-no-outbound", "links-outbound", "links-no-internal", "links-internal"}
ImagesMsgs == {"images-none", "images-missing-alt", "images-alt-good"}

\* The place in the order of execution of the check a message belongs to.
CheckOrder(msg) ==
    CASE msg \in TitleMsgs -> 1
      [] msg \in MetaMsgs -> 2
      [] msg \in WordCountMsgs -> 3
      [] msg \in DensityMsgs -> 4
      [] msg \in FirstParagraphMsgs -> 5
      [] msg \in HeadingsMsgs -> 6
      [] msg \in LinksMsgs -> 7
      [] msg \in ImagesMsgs -> 8

\* A focus keyword that is unset: nothing is left of it once trimmed.
KeywordUnset(value) == \A i \in 1..Len(value) : value[i] = " "

ClickedKeyword == normalizeKeyword(clicked.keyword)
ClickedText == bodyTextContent(clicked.content)
ClickedWordCount == countWords(ClickedText)
ClickedDensity == checkKeywordDensity(<<>>, ClickedText, ClickedKeyword, ClickedWordCount)

\* What each check emits for the fields the last click read, check by check,
\* up to the check that threw.
EmittedByLastClick ==
    checkTitle(<<>>, clicked.title, ClickedKeyword)
    \o checkMetaDescription(<<>>, clicked.meta, ClickedKeyword)
    \o checkWordCount(<<>>, ClickedWordCount)
    \o (IF ClickedDensity.threw THEN <<>>
        ELSE ClickedDensity.list
             \o checkKeywordInFirstParagraph(<<>>, clicked.content, ClickedKeyword)
             \o checkHeadings(<<>>, clicked.content, ClickedKeyword)
             \o checkLinks(<<>>, clicked.content)
             \o checkImages(<<>>, clicked.content))

\* C1: whatever clicks came before, the results list holds exactly what the
\* most recent click emitted, nothing of an earlier click, in the order the
\* checks run (title, meta description, word count, keyword density, first
\* paragraph, headings, links, images), appended in the order of emission.
C1_ResultsAreTheLastClicks ==
    /\ ~clicked.any => resultsList = <<>>
    /\ clicked.any => resultsList = EmittedByLastClick
    /\ \A i, j \in 1..Len(resultsList) :
          i < j => CheckOrder(resultsList[i].msg) <= CheckOrder(resultsList[j].msg)

\* A second click, on a document for which every check speaks: twelve items.
C1_Witness ==
    /\ clicked.again
    /\ clicked.content = GoodDoc
    /\ ~KeywordUnset(clicked.keyword)
    /\ Len(resultsList) = 12

\* C2: checkTitle emits one "bad" and nothing else for an empty title; else
\* first a length recommendation, "good" iff 30 <= length <= 60 and otherwise
\* "bad" with the exact length, then, whatever the length, a keyword
\* recommendation iff the keyword is set, "good" iff the lower-cased title
\* contains the keyword and "bad" if not.
C2_CheckTitleEmits ==
    ret.done =>
        LET title == call.title
            keyword == call.keyword
            out == ret.list
            inRange == 30 <= Len(title) /\ Len(title) <= 60
            found == includes(toLowerCase(title), keyword)
        IN IF title = <<>>
           THEN out = <<Rec("title-missing", NoValue, "bad")>>
           ELSE /\ Len(out) = IF keyword = <<>> THEN 1 ELSE 2
                /\ out[1] = IF inRange
                            THEN Rec("title-length-good", NoValue, "good")
                            ELSE Rec("title-length", IntValue(Len(title)), "bad")
                /\ keyword # <<>> =>
                      out[2] = IF found
                               THEN Rec("title-keyword", NoValue, "good")
                               ELSE Rec("title-keyword-missing", NoValue, "bad")

\* A title of exactly 60 characters that holds the keyword: two "good".
C2_Witness ==
    /\ ret.done
    /\ Len(call.title) = 60
    /\ call.keyword = <<"s", "e", "o">>
    /\ Len(ret.list) = 2
    /\ ret.list[1].type = "good"
    /\ ret.list[2].type = "good"

\* C3: with the focus keyword unset (nothing left once lower-cased and
\* trimmed) the keyword density check emits exactly one "info" and nothing
\* else, and the first-paragraph check nothing, whatever the content.
C3_UnsetKeyword ==
    (clicked.any /\ KeywordUnset(clicked.keyword)) =>
        /\ RecsOf(resultsList, DensityMsgs) = <<Rec("keyword-unset", NoValue, "info")>>
        /\ RecsOf(resultsList, FirstParagraphMsgs) = <<>>

\* A keyword of white space only, on a document with words and a paragraph.
C3_Witness ==
    /\ clicked.any
    /\ clicked.keyword = <<" ", " ">>
    /\ clicked.content = GoodDoc
    /\ Len(resultsList) > 0

\* C4: for a set keyword and at least one word, checkKeywordDensity emits
\* exactly one recommendation, whose severity follows the density rounded to
\* two decimals: "bad" above 2.50, "info" below 0.50, else "good" (0.50 and
\* 2.50 themselves are "good").
C4_DensityEmitsOne ==
    (ret.done /\ call.keyword # <<>> /\ call.wordCount >= 1) =>
        /\ Len(ret.list) = 1
        /\ ret.list[1].val.kind = "fixed2"
        /\ ret.list[1].type = IF ret.list[1].val.n > 250 THEN "bad"
                              ELSE IF ret.list[1].val.n < 50 THEN "info" ELSE "good"

\* C5: for a set keyword and no word at all the keyword density check does
\* not crash: it emits exactly one recommendation, and the first-paragraph,
\* headings, links and images checks run after it.
C5_NoWordsNoCrash ==
    (clicked.any /\ ~KeywordUnset(clicked.keyword) /\ ClickedWordCount = 0) =>
        /\ ~uncaught
        /\ Len(RecsOf(resultsList, DensityMsgs)) = 1
        /\ RecsOf(resultsList, FirstParagraphMsgs) # <<>>
        /\ RecsOf(resultsList, HeadingsMsgs) # <<>>
        /\ RecsOf(resultsList, LinksMsgs) # <<>>
        /\ RecsOf(resultsList, ImagesMsgs) # <<>>

-----------------------------------------------------------------------------
(* What is claimed of the URL pipeline *)

CardsOf(list, title) ==
    SelectSeq(list, LAMBDA r : r.msg = "score-card" /\ r.title = title)

\* The last chain to settle delivered a payload without an error field, which
\* processApiData was given.
Projected == outcome \in {"projected", "projection-threw"}

PayloadHasCategory(id) ==
    /\ Has(payload, "lighthouseResult")
    /\ Has(payload.lighthouseResult, "categories")
    /\ Has(payload.lighthouseResult.categories, id)

PayloadHasFirstItem ==
    /\ Has(payload, "lighthouseResult")
    /\ Has(payload.lighthouseResult, "audits")
    /\ Has(payload.lighthouseResult.audits, "metrics")
    /\ Has(payload.lighthouseResult.audits.metrics, "details")
    /\ Has(payload.lighthouseResult.audits.metrics.details, "items")
    /\ payload.lighthouseResult.audits.metrics.details.items # <<>>

PayloadFirstItem == payload.lighthouseResult.audits.metrics.details.items[1]

MetricMsgs == {"lcp", "cls", "tbt"}

\* C6: for a payload without an error field, an absent performance category
\* gives exactly one "bad" performance-data-missing and no performance card,
\* header or metric; an absent accessibility category nothing at all; an
\* absent seo category exactly one "bad" SEO-audit-missing and no SEO card or
\* audit message; each whatever the other two categories are.
C6_AbsentCategories ==
    Projected =>
        /\ ~PayloadHasCategory("performance") =>
              /\ RecsOf(urlResultsList, {"performance-missing"})
                    = <<Rec("performance-missing", NoValue, "bad")>>
              /\ CardsOf(urlResultsList, "Performance Score") = <<>>
              /\ RecsOf(urlResultsList, MetricMsgs \cup {"core-web-vitals"}) = <<>>
        /\ ~PayloadHasCategory("accessibility") =>
              /\ CardsOf(urlResultsList, "Accessibility Score") = <<>>
              /\ RecsOf(urlResultsList, {"accessibility-low", "accessibility-good"}) = <<>>
        /\ ~PayloadHasCategory("seo") =>
              /\ RecsOf(urlResultsList, {"seo-missing"})
                    = <<Rec("seo-missing", NoValue, "bad")>>
              /\ CardsOf(urlResultsList, "Google SEO Score") = <<>>
              /\ RecsOf(urlResultsList, SeoAuditIds) = <<>>

\* C7: a request that ends in a network failure, or whose payload has an
\* error field, leaves the URL results list with exactly one item, a "bad"
\* recommendation with the failure's or the error's message (no card, nothing
\* of any category), and no request is issued after it: nothing is in flight
\* and fetch was called once per accepted click.
C7_FailureLeavesOneBad ==
    /\ outcome = "network-failure" =>
          urlResultsList = <<Rec("network-error", MessageValue("Failed to fetch"), "bad")>>
    /\ outcome = "payload-error" =>
          urlResultsList =
              <<Rec("error",
                    MessageValue(IF Has(payload.error, "message")
                                 THEN payload.error.message ELSE "undefined"),
                    "bad")>>
    /\ outcome \in {"network-failure", "payload-error"} =>
          inFlight = [fetching |-> 0, parsing |-> 0]
    /\ fetchCalls = urlClicks

\* The second request's payload has an error field beside a lighthouseResult.
C7_Witness ==
    /\ outcome = "payload-error"
    /\ Has(payload, "lighthouseResult")
    /\ urlClicks = 2
    /\ Len(urlResultsList) = 1

\* C8: for a payload without an error field, whatever of it is missing, the
\* projection raises no exception, and no error recommendation follows it
\* into the URL results list.
C8_ProjectionNeverThrows ==
    Projected =>
        /\ outcome = "projected"
        /\ RecsOf(urlResultsList, {"network-error"}) = <<>>

\* C9: with the performance category present the list starts with the
\* performance card and the "good" header; then, if the metrics audit has a
\* first detail item, exactly the three metric recommendations LCP, CLS, TBT in
\* this order (LCP <= 2500 good, <= 4000 info, else bad; CLS <= 0.1 good,
\* <= 0.25 info, else bad; TBT <= 200 good, else bad), and none of them if it
\* has not.
C9_PerformancePresent ==
    (Projected /\ PayloadHasCategory("performance")) =>
        LET metrics == RecsOf(urlResultsList, MetricMsgs)
            item == PayloadFirstItem
            within(key, bound) == Has(item, key) /\ item[key] <= bound
        IN /\ Len(urlResultsList) >= 2
           /\ urlResultsList[1].msg = "score-card"
           /\ urlResultsList[1].title = "Performance Score"
           /\ urlResultsList[2] = Rec("core-web-vitals", NoValue, "good")
           /\ IF PayloadHasFirstItem
              THEN /\ Len(metrics) = 3
                   /\ metrics[1].msg = "lcp"
                   /\ metrics[1].type =
                         IF within("largestContentfulPaint", 2500) THEN "good"
                         ELSE IF within("largestContentfulPaint", 4000) THEN "info"
                         ELSE "bad"
                   /\ metrics[2].msg = "cls"
                   /\ metrics[2].type =
                         IF within("cumulativeLayoutShift", 100) THEN "good"
                         ELSE IF within("cumulativeLayoutShift", 250) THEN "info"
                         ELSE "bad"
                   /\ metrics[3].msg = "tbt"
                   /\ metrics[3].type =
                         IF within("totalBlockingTime", 200) THEN "good" ELSE "bad"
              ELSE metrics = <<>>

Pending == inFlight.fetching + inFlight.parsing

=============================================================================
